---- MODULE Spec2Model ----
(***************************************************************************)
(* A model of the adaptive multi-value hostcall reader of the Fastly SDK   *)
(* (fastly/src/abi.rs, MultiValueHostcall) together with the host side of  *)
(* the fill_buf closure it drives.  One session is one MultiValueHostcall  *)
(* value; the action Iterator_next is one call of Iterator::next on it.    *)
(* SpecAdapter wraps the session in one of the header adapters of          *)
(* http/request/handle.rs and http/response/handle.rs.  SpecExecution is   *)
(* one execution of a program that uses the handle API, the client         *)
(* singletons, Request values and the calls that send a response to the    *)
(* client.  SpecLimits and SpecResponseLimits are the size limits of       *)
(* limits.rs and the reads of from_handles under them; SpecBackend is the  *)
(* validation of backend names (backend.rs); SpecCache is get_or_set_with  *)
(* of cache/simple.rs over one cache item; SpecBody is the read buffer and *)
(* the Prefix of http/body.rs.                                             *)
(***************************************************************************)
EXTENDS Integers, Sequences, FiniteSets, Bags, TLC

\* ------------------------------------------------------------------ bounds
\* Largest number of elements of the host source.
MaxElts == 3
\* Largest initial_buf_size / max_buf_size a session is constructed with.
MaxBufSize == 4
\* Number of next() calls made on one session.
MaxCalls == 4
\* How far an allocation may exceed the capacity that was asked for.
CapSlack == 1
\* The largest value of a cursor; it stands for u32::MAX, scaled down to the
\* size of the sources above.
CursorMax == 7
\* How many handles one execution asks the host for.
MaxHandles == 2
\* How many Request values one execution holds.
MaxRequests == 2
\* The small size limit a program sets, below every initial buffer size.
SmallLimit == 1
\* How far the lengths of the backend names tried lie from the ends of the
\* range of accepted lengths.
NameSlack == 1
\* How many get_or_set_with calls one execution makes.
MaxCacheCalls == 2
\* How many different values are cached.
MaxValues == 2
\* How many bytes a body holds at most.
MaxBody == 3
\* The capacity of the body's BufReader, scaled down from 8 KiB.
ReaderCap == 2

\* ------------------------------------------------------- program constants
\* FastlyStatus codes.
OK == 0
ERROR == 1
BADF == 3
BUFLEN == 4
\* The terminator byte every call site passes (b'\0').
TermByte == 0
\* limits.rs
MAX_BACKEND_NAME_LEN == 255
INITIAL_HEADER_NAME_BUF_SIZE == 128
DEFAULT_MAX_HEADER_NAME_BYTES == 8192
INITIAL_HEADER_VALUE_BUF_SIZE == 4096
DEFAULT_MAX_HEADER_VALUE_BYTES == 8192
INITIAL_METHOD_BUF_SIZE == 8
DEFAULT_MAX_METHOD_BYTES == 8192
INITIAL_URL_BUF_SIZE == 4096
DEFAULT_MAX_URL_BYTES == 8192

\* Option<usize>
None == <<>>
Some(n) == <<n>>

\* ------------------------------------------------------------- host source
RECURSIVE SeqsUpTo(_, _)
SeqsUpTo(S, n) ==
    IF n = 0 THEN {<<>>}
    ELSE LET shorter == SeqsUpTo(S, n - 1)
         IN  shorter \cup {Append(s, x) : s \in {t \in shorter : Len(t) = n - 1}, x \in S}

\* The elements the host may hold (an empty one and one of a single byte
\* that is not the terminator), and the sources built from them.
Elements == {<<>>, <<1>>}
Sources == SeqsUpTo(Elements, MaxElts)

\* The wire encoding of a run of elements: each element followed by exactly
\* one terminator byte.
RECURSIVE Encode(_)
Encode(elts) ==
    IF elts = <<>> THEN <<>>
    ELSE Head(elts) \o <<TermByte>> \o Encode(Tail(elts))

VARIABLES
    src,           \* host: the logical result set being enumerated
    buf,           \* self.buf contents (the undrained bytes)
    cap,           \* self.buf.capacity()
    buf_size,      \* self.buf_size
    max_buf_size,  \* self.max_buf_size (None or Some(n))
    cursor,        \* self.cursor
    is_done,       \* self.is_done
    out,           \* the items next() has returned so far, in order
    fills,         \* the fill_buf calls made so far, in order, with their answers
    panicked,      \* "none", or the panic that aborted the session
    alloc_slack,   \* by how much the allocator rounds a requested capacity up
    retry_of,      \* Some(R) in a session the caller constructed after
                   \* BufferTooSmall{R} ended the one before, else None
    adapter,       \* the header adapter that wraps the session, "none" when
                   \* the reader is used on its own
    items,         \* the items the adapter's iterator has returned so far
    adapter_panic, \* NoPanic, or the panic raised by the adapter's closure
    GOT_CLIENT_REQ,  \* static GOT_CLIENT_REQ: AtomicBool
    GOT_CLIENT_BODY, \* static GOT_CLIENT_BODY: AtomicBool
    SENT,            \* static SENT: AtomicBool
    session,       \* the handles that are open in the host's session
    handles,       \* the handle values the program holds
    created,       \* how many handles the program has asked the host for
    close_calls,   \* per handle, the host close calls made for it
    close_results, \* the close() calls made, each with what the caller got
    takes,         \* the attempts to obtain the client request or body
    requests,      \* the Request values the program holds (a bag)
    sends,         \* the attempts to send a response to the client
    exec_panic,    \* "none", or the panic that ended the execution
    REQUEST_LIMITS,  \* static ref REQUEST_LIMITS: RwLock<RequestLimits>
    RESPONSE_LIMITS, \* static ref RESPONSE_LIMITS: RwLock<ResponseLimits>
    response_limits_call, \* the last ResponseLimits function called, "none" at the start
    conversion,    \* what the latest Request::from_handles under the
                   \* current limits was given and returned
    response_conversion, \* the same for the latest Response::from_handles
    backend_name,  \* the &str given to validate_backend / Backend::from_name
    backend_call,  \* the function that was called with it, "none" before
    backend_result, \* what the call returned
    cache_item,    \* the host's cache entry for the key
    cache_other,   \* another client holds the obligation to insert or
                   \* update the entry
    cache_calls,   \* the get_or_set_with calls made, each with what the
                   \* lookup reported, whether the closure ran, and the result
    body_reader,   \* Body::reader's buffer: bytes read from the host, not
                   \* yet consumed
    body_host,     \* the bytes the host holds for the body handle
    body_writer,   \* Body::writer's buffer: bytes written, not yet flushed
    prefix,        \* the Prefix obtained from the body: its state, its
                   \* buf, the buf it was created with, and whether the
                   \* program modified it
    body_before,   \* the content of the body when get_prefix_mut was called
    body_read      \* Some(bytes) once Body::into_bytes has read the body

reader_vars == <<retry_of, alloc_slack, src, buf, cap, buf_size, max_buf_size, cursor, is_done, out, fills, panicked,
                 adapter, items, adapter_panic>>

exec_vars == <<GOT_CLIENT_REQ, GOT_CLIENT_BODY, SENT, session, handles, created, close_calls,
               close_results, takes, requests, sends, exec_panic>>

limits_vars == <<REQUEST_LIMITS, RESPONSE_LIMITS, response_limits_call, conversion,
          response_conversion>>

backend_vars == <<backend_name, backend_call, backend_result>>

cache_vars == <<cache_item, cache_other, cache_calls>>

body_vars == <<body_reader, body_host, body_writer, prefix, body_before, body_read>>

lib_vars == <<limits_vars, backend_vars, cache_vars, body_vars>>

\* What the functions of the limits module leave alone.
non_limits_vars == <<reader_vars, exec_vars, backend_vars, cache_vars, body_vars>>

\* What the functions of the backend module leave alone.
non_backend_vars == <<reader_vars, exec_vars, limits_vars, cache_vars, body_vars>>

\* What the cache leaves alone.
non_cache_vars == <<reader_vars, exec_vars, limits_vars, backend_vars, body_vars>>

\* What a Body leaves alone.
non_body_vars == <<reader_vars, exec_vars, limits_vars, backend_vars, cache_vars>>

vars == <<retry_of, alloc_slack, src, buf, cap, buf_size, max_buf_size, cursor, is_done, out, fills, panicked,
          adapter, items, adapter_panic,
          GOT_CLIENT_REQ, GOT_CLIENT_BODY, SENT, session, handles, created, close_calls,
          close_results, takes, requests, sends, exec_panic,
          REQUEST_LIMITS, RESPONSE_LIMITS, response_limits_call, conversion,
          response_conversion, backend_name, backend_call, backend_result,
          cache_item, cache_other, cache_calls,
          body_reader, body_host, body_writer, prefix, body_before, body_read>>

\* ------------------------------------------------------------------ items
ItemOk(bytes) == [tag |-> "Ok", bytes |-> bytes, code |-> 0]
ItemBufferTooSmall(n) == [tag |-> "BufferTooSmall", bytes |-> <<>>, code |-> n]
\* A closure error that reports the generic status whatever the host returned.
ItemClosureErrorGeneric(status) == [tag |-> "ClosureError", bytes |-> <<>>, code |-> ERROR]

ItemClosureError(status) == [tag |-> "ClosureError", bytes |-> <<>>, code |-> status]
ItemNone == [tag |-> "None", bytes |-> <<>>, code |-> 0]

\* A panic of an adapter closure: its message and the status it formats.
AdapterPanic(msg, code) == [msg |-> msg, code |-> code]
NoPanic == AdapterPanic("none", 0)

Min(a, b) == IF a < b THEN a ELSE b

\* A reserve that allocates nothing.
ReserveNothing(current, n) == current

\* BytesMut::with_capacity / BytesMut::reserve on an empty buffer: afterwards
\* the capacity is at least n; an allocation that is already large enough is
\* kept, a new one exceeds n by what the allocator adds.
Reserve(current, n) ==
    IF current >= n THEN current ELSE n + alloc_slack

\* --------------------------------------------------------------- the host
\* What one fill_buf call answers: the status it returns, the values it
\* leaves in the nwritten and ending_cursor out-parameters and the bytes it
\* wrote to the buffer.  `kind` records which host behaviour produced it.
Resp(status, nwritten, ending, data, kind) ==
    [status |-> status, nwritten |-> nwritten, ending |-> ending,
     data |-> data, kind |-> kind]

\* The statuses, other than OK and BUFLEN, the host is modelled to fail with.
FailStatuses == {ERROR, BADF}

\* The host hands over the next k whole elements from cursor cur when they
\* fit in the capacity c, and otherwise asks for the size they need.  The
\* cursor is the index of the next element; -1 says the batch was the last.
Batch(c, cur, k) ==
    LET enc == Encode(SubSeq(src, cur + 1, cur + k))
        ending == IF cur + k = Len(src) THEN -1 ELSE cur + k
    IN  IF Len(enc) <= c
        THEN Resp(OK, Len(enc), ending, enc, "batch")
        ELSE Resp(BUFLEN, Len(enc), 0, <<>>, "batch")

\* A host that breaks the protocol on a batch it could have delivered: it
\* leaves out the last terminator, or writes an ending cursor that does not
\* advance.
BadBatch(c, cur, k) ==
    LET good == Batch(c, cur, k)
    IN  IF good.status # OK THEN {}
        ELSE (IF good.nwritten >= 2
              THEN {Resp(OK, good.nwritten - 1, good.ending,
                         SubSeq(good.data, 1, good.nwritten - 1), "no_terminator")}
              ELSE {})
             \cup {Resp(OK, good.nwritten, cur, good.data, "bad_cursor")}

\* A host that breaks the protocol whatever it holds: it reports more bytes
\* than the buffer has room for, writes an ending cursor that does not fit a
\* u32, reports nothing although elements are left, or asks for a buffer no
\* larger than the one it was given.
BadAnswers(c, cur) ==
    LET remaining == Len(src) - cur
    IN  {Resp(OK, c + 1, -1, <<>>, "overflow")}
        \cup (IF remaining > 0 /\ Batch(c, cur, 1).status = OK
              THEN {Resp(OK, Batch(c, cur, 1).nwritten, CursorMax + 1, Batch(c, cur, 1).data, "bad_cursor")}
              ELSE {})
        \cup (IF remaining > 0
              THEN {Resp(OK, 0, 0, <<>>, "bad_empty"), Resp(BUFLEN, 0, 0, <<>>, "bad_empty")}
              ELSE {})
        \cup {Resp(BUFLEN, n, 0, <<>>, "bad_size") : n \in {1} \cap (1 .. c)}

\* Every answer fill_buf(buf, c, cur, ..) can give.
FillBuf(c, cur) ==
    LET remaining == Len(src) - cur
    IN  {Batch(c, cur, k) : k \in 1 .. remaining}
        \cup (IF remaining = 0
              THEN {Resp(OK, 0, 0, <<>>, "empty"), Resp(BUFLEN, 0, 0, <<>>, "empty")}
              ELSE {})
        \cup {Resp(s, 0, 0, <<>>, "error") : s \in FailStatuses}
        \cup UNION {BadBatch(c, cur, k) : k \in 1 .. remaining}
        \cup BadAnswers(c, cur)

\* The record of one fill_buf call in `fills`.
Call(c, cur, r) ==
    [cap |-> c, cursor |-> cur, status |-> r.status, nwritten |-> r.nwritten,
     ending |-> r.ending, data |-> r.data, kind |-> r.kind]

\* ------------------------------------------------- MultiValueHostcall::new
\* A constructor that forgets the clamp.
ClampInitialIgnoresMax(initial_buf_size, max) == initial_buf_size

\* initial_buf_size is clamped to max_buf_size when one is given.
ClampInitial(initial_buf_size, max) ==
    IF max # None THEN Min(initial_buf_size, max[1]) ELSE initial_buf_size

\* ------------------------------------------------------------- the limits
\* RequestLimits::default()
RequestLimits_default ==
    [max_header_name_bytes |-> Some(DEFAULT_MAX_HEADER_NAME_BYTES),
     max_header_value_bytes |-> Some(DEFAULT_MAX_HEADER_VALUE_BYTES),
     max_method_bytes |-> Some(DEFAULT_MAX_METHOD_BYTES),
     max_url_bytes |-> Some(DEFAULT_MAX_URL_BYTES)]

\* ResponseLimits::default()
ResponseLimits_default ==
    [max_header_name_bytes |-> None, max_header_value_bytes |-> None]

\* No Request::from_handles has run under the current limits.
NoConversion ==
    [called |-> FALSE, required |-> <<>>, tag |-> "none",
     buf_size |-> 0, needed_buf_size |-> 0, buffer_kind |-> "none"]

\* The lazy statics when they are first read.
LimitsAtStart ==
    /\ REQUEST_LIMITS = RequestLimits_default
    /\ RESPONSE_LIMITS = ResponseLimits_default
    /\ response_limits_call = "none"
    /\ conversion = NoConversion
    /\ response_conversion = NoConversion

\* The library state that the reader and the handle API leave alone.
\* No backend name has been validated.
BackendAtStart ==
    /\ backend_name = <<>>
    /\ backend_call = "none"
    /\ backend_result = [tag |-> "none", name |-> <<>>]

\* The cache entry of a key nobody has set.
NoItem == [state |-> "absent", value |-> 0, swr |-> FALSE]

CacheAtStart ==
    /\ cache_item = NoItem
    /\ cache_other = FALSE
    /\ cache_calls = <<>>

\* No Prefix has been obtained.
NoPrefix == [state |-> "none", buf |-> <<>>, orig |-> <<>>, modified |-> FALSE]

\* Body::new(): an empty body.
BodyAtStart ==
    /\ body_reader = <<>>
    /\ body_host = <<>>
    /\ body_writer = <<>>
    /\ prefix = NoPrefix
    /\ body_before = <<>>
    /\ body_read = None

LibraryAtRest == LimitsAtStart /\ BackendAtStart /\ CacheAtStart /\ BodyAtStart

\* A handle: its kind and the number the host gave it.  The client request
\* and the client body are in the session from the start.
Kinds == {"req", "resp", "body"}
Handle(kind, id) == [kind |-> kind, id |-> id]
ClientReq == Handle("req", 0)
ClientBody == Handle("body", 0)
AllHandles == {Handle(k, i) : k \in Kinds, i \in 0 .. MaxHandles}

\* The statics, the host session and the program at the start of an
\* execution.
StartOfExecution ==
    /\ GOT_CLIENT_REQ = FALSE
    /\ GOT_CLIENT_BODY = FALSE
    /\ SENT = FALSE
    /\ session = {ClientReq, ClientBody}
    /\ handles = {}
    /\ created = 0
    /\ close_calls = [h \in AllHandles |-> 0]
    /\ close_results = {}
    /\ takes = <<>>
    /\ requests = EmptyBag
    /\ sends = <<>>
    /\ exec_panic = "none"

Init ==
    /\ StartOfExecution
    /\ LibraryAtRest
    /\ src \in Sources
    /\ alloc_slack \in {0, CapSlack}
    /\ max_buf_size \in {None} \cup {Some(n) : n \in 0 .. MaxBufSize}
    /\ \E initial_buf_size \in 0 .. MaxBufSize :
          /\ buf_size = ClampInitial(initial_buf_size, max_buf_size)
          /\ cap = Reserve(0, buf_size)
    /\ buf = <<>>
    /\ cursor = 0
    /\ is_done = FALSE
    /\ out = <<>>
    /\ fills = <<>>
    /\ panicked = "none"
    /\ retry_of = None
    /\ adapter = "none"
    /\ items = <<>>
    /\ adapter_panic = NoPanic

\* ------------------------------------------------ MultiValueHostcall::next
\* A growth check that ignores max_buf_size.
BufferAlwaysGrows(nwritten, max) == TRUE

\* A growth check that never allows a retry.
BufferNeverGrows(nwritten, max) == FALSE

\* Whether a BUFLEN answer asking for nwritten bytes may be retried with a
\* larger buffer.
BufferCanGrow(nwritten, max) ==
    IF max # None THEN nwritten < max[1] ELSE TRUE

HasTerm(b) == \E i \in 1 .. Len(b) : b[i] = TermByte

\* The number of bytes before the first terminator byte of b.
FirstTermIx(b) == (CHOOSE i \in 1 .. Len(b) : b[i] = TermByte /\ \A j \in 1 .. (i - 1) : b[j] # TermByte) - 1

\* A split that keeps the terminator with the element.
SplitToWithTerm(b, ix) == SubSeq(b, 1, ix + 1)

\* buf.split_to(ix): the first ix bytes.
SplitTo(b, ix) == SubSeq(b, 1, ix)

\* A remainder that forgets to advance past the terminator.
RemainderKeepsTerm(b, ix) == SubSeq(b, ix + 1, Len(b))

\* What stays in the buffer after split_to(ix) and advance(1).
Remainder(b, ix) == SubSeq(b, ix + 2, Len(b))

\* next() returns item, leaving the session with the given fields.
Return(b, c, bs, cur, done, item, log) ==
    /\ buf' = b
    /\ cap' = c
    /\ buf_size' = bs
    /\ cursor' = cur
    /\ is_done' = done
    /\ out' = Append(out, item)
    /\ fills' = log
    /\ UNCHANGED <<retry_of, alloc_slack, src, max_buf_size, panicked>>

\* next() panics, the session's fields being as given at that point.
Panic(reason, b, c, bs, cur, done, log) ==
    /\ buf' = b
    /\ cap' = c
    /\ buf_size' = bs
    /\ cursor' = cur
    /\ is_done' = done
    /\ fills' = log
    /\ panicked' = reason
    /\ UNCHANGED <<retry_of, alloc_slack, src, max_buf_size, out>>

\* Split the first element off the buffer and return it.
Drain(b, c, bs, cur, done, log) ==
    IF ~HasTerm(b)
    THEN Panic("terminator byte was not found", b, c, bs, cur, done, log)
    ELSE LET first_term_ix == FirstTermIx(b)
         IN  Return(Remainder(b, first_term_ix), c - (first_term_ix + 1), bs, cur, done,
                    ItemOk(SplitTo(b, first_term_ix)), log)

\* Filled, but an empty answer does not mark the session done.
FilledEmptyNotDone(c, r, bs, log) ==
    IF r.nwritten = 0
    THEN Return(<<>>, c, bs, cursor, is_done, ItemNone, log)
    ELSE IF ~(r.nwritten <= c)
    THEN Panic("fill_buf set invalid nwritten", <<>>, c, bs, cursor, is_done, log)
    ELSE IF r.ending < 0
    THEN Drain(r.data, c, bs, cursor, TRUE, log)
    ELSE IF ~(r.ending <= CursorMax /\ r.ending > cursor)
    THEN Panic("fill_buf set invalid ending_cursor", r.data, c, bs, cursor, is_done, log)
    ELSE Drain(r.data, c, bs, r.ending, is_done, log)

\* Filled, but the cursor is not moved to the ending cursor.
FilledKeepsCursor(c, r, bs, log) ==
    IF r.nwritten = 0
    THEN Return(<<>>, c, bs, cursor, TRUE, ItemNone, log)
    ELSE IF ~(r.nwritten <= c)
    THEN Panic("fill_buf set invalid nwritten", <<>>, c, bs, cursor, is_done, log)
    ELSE IF r.ending < 0
    THEN Drain(r.data, c, bs, cursor, TRUE, log)
    ELSE IF ~(r.ending <= CursorMax /\ r.ending > cursor)
    THEN Panic("fill_buf set invalid ending_cursor", r.data, c, bs, cursor, is_done, log)
    ELSE Drain(r.data, c, bs, cursor, is_done, log)

\* Filled, but nwritten is not checked against the capacity.
FilledUnchecked(c, r, bs, log) ==
    IF r.nwritten = 0
    THEN Return(<<>>, c, bs, cursor, TRUE, ItemNone, log)
    ELSE IF r.ending < 0
    THEN Drain(r.data, c, bs, cursor, TRUE, log)
    ELSE IF ~(r.ending <= CursorMax /\ r.ending > cursor)
    THEN Panic("fill_buf set invalid ending_cursor", r.data, c, bs, cursor, is_done, log)
    ELSE Drain(r.data, c, bs, r.ending, is_done, log)

\* A fill_buf call (the first or the retry) returned OK with the answer r
\* for a buffer of capacity c.
Filled(c, r, bs, log) ==
    IF r.nwritten = 0
    THEN Return(<<>>, c, bs, cursor, TRUE, ItemNone, log)
    ELSE IF ~(r.nwritten <= c)
    THEN Panic("fill_buf set invalid nwritten", <<>>, c, bs, cursor, is_done, log)
    ELSE IF r.ending < 0
    THEN Drain(r.data, c, bs, cursor, TRUE, log)
    ELSE IF ~(r.ending <= CursorMax /\ r.ending > cursor)
    THEN Panic("fill_buf set invalid ending_cursor", r.data, c, bs, cursor, is_done, log)
    ELSE Drain(r.data, c, bs, r.ending, is_done, log)

\* A retry that reports a second BUFLEN as an ordinary BufferTooSmall error.
RetryBuflenAsError(c1, needed, log1) ==
    \E r2 \in FillBuf(Reserve(c1, needed), cursor) :
        LET c2 == Reserve(c1, needed)
            log2 == Append(log1, Call(c2, cursor, r2))
        IN  IF r2.status # OK
            THEN IF r2.status = BUFLEN
                 THEN Return(<<>>, c2, needed, cursor, TRUE,
                             ItemBufferTooSmall(r2.nwritten), log2)
                 ELSE Return(<<>>, c2, needed, cursor, TRUE, ItemClosureError(r2.status), log2)
            ELSE Filled(c2, r2, needed, log2)

\* The retry of a fill_buf call that asked for needed bytes.
Retry(c1, needed, log1) ==
    \E r2 \in FillBuf(Reserve(c1, needed), cursor) :
        LET c2 == Reserve(c1, needed)
            log2 == Append(log1, Call(c2, cursor, r2))
        IN  IF r2.status # OK
            THEN IF r2.status = BUFLEN
                 THEN Panic("adaptive buffer hostcall requested wrong size",
                            <<>>, c2, needed, cursor, is_done, log2)
                 ELSE Return(<<>>, c2, needed, cursor, TRUE, ItemClosureError(r2.status), log2)
            ELSE Filled(c2, r2, needed, log2)

\* The buffer is empty and the session is not done: fill the buffer.
Fill ==
    \E r1 \in FillBuf(Reserve(cap, buf_size), cursor) :
        LET c1 == Reserve(cap, buf_size)
            log1 == Append(fills, Call(c1, cursor, r1))
        IN  IF r1.status # OK
            THEN IF r1.status = BUFLEN
                 THEN IF BufferCanGrow(r1.nwritten, max_buf_size) /\ r1.nwritten # 0
                      THEN Retry(c1, r1.nwritten, log1)
                      ELSE Return(<<>>, c1, buf_size, cursor, TRUE,
                                  ItemBufferTooSmall(r1.nwritten), log1)
                 ELSE Return(<<>>, c1, buf_size, cursor, TRUE, ItemClosureError(r1.status), log1)
            ELSE Filled(c1, r1, buf_size, log1)

\* next() without the is_done check on an empty buffer.
NextIgnoresDone ==
    /\ panicked = "none"
    /\ Len(out) < MaxCalls
    /\ IF buf = <<>>
       THEN Fill
       ELSE Drain(buf, cap, buf_size, cursor, is_done, fills)
    /\ UNCHANGED <<adapter, items, adapter_panic>>
    /\ UNCHANGED <<exec_vars, lib_vars>>

\* The body of next(), filling an empty buffer even when the session is done.
NextRefillsWhenDone ==
    /\ panicked = "none"
    /\ Len(out) < MaxCalls
    /\ IF buf = <<>>
       THEN Fill
       ELSE Drain(buf, cap, buf_size, cursor, is_done, fills)

\* The body of next(): what it does to the session.
MultiValueHostcall_next ==
    /\ panicked = "none"
    /\ Len(out) < MaxCalls
    /\ IF buf = <<>>
       THEN IF is_done
            THEN Return(buf, cap, buf_size, cursor, is_done, ItemNone, fills)
            ELSE Fill
       ELSE Drain(buf, cap, buf_size, cursor, is_done, fills)

\* One call of Iterator::next on the session, used without an adapter.
Iterator_next ==
    /\ adapter = "none"
    /\ MultiValueHostcall_next
    /\ UNCHANGED <<adapter, items, adapter_panic>>
    /\ UNCHANGED <<exec_vars, lib_vars>>

Next == Iterator_next

Spec == Init /\ [][Next]_vars

\* ------------------------------------------------- the caller's recovery
\* The session ended with BufferTooSmall{R}: the caller drops it and
\* constructs a new one over the same source with max_buf_size = R and an
\* initial_buf_size of at most R.
NewSession ==
    /\ panicked = "none"
    /\ retry_of = None
    /\ out # <<>>
    /\ out[Len(out)].tag = "BufferTooSmall"
    /\ LET needed_buf_size == out[Len(out)].code
       IN  /\ retry_of' = Some(needed_buf_size)
           /\ max_buf_size' = Some(needed_buf_size)
           /\ \E initial_buf_size \in 0 .. needed_buf_size :
                 /\ buf_size' = ClampInitial(initial_buf_size, Some(needed_buf_size))
                 /\ cap' = Reserve(0, ClampInitial(initial_buf_size, Some(needed_buf_size)))
    /\ buf' = <<>>
    /\ cursor' = 0
    /\ is_done' = FALSE
    /\ out' = <<>>
    /\ fills' = <<>>
    /\ UNCHANGED <<alloc_slack, src, panicked, adapter, items, adapter_panic>>
    /\ UNCHANGED <<exec_vars, lib_vars>>

NextRecovery == Iterator_next \/ NewSession

SpecRecovery == Init /\ [][NextRecovery]_vars

\* ------------------------------------------------------ the header adapters
\* The public functions that wrap a MultiValueHostcall in a `.map` closure.
Adapters ==
    {"RequestHandle::get_header_names", "RequestHandle::get_header_values",
     "client_original_header_names",
     "ResponseHandle::get_header_names", "ResponseHandle::get_header_values"}

\* The adapters whose closure builds a HeaderName from the element.
NameAdapters == {"RequestHandle::get_header_names", "ResponseHandle::get_header_names"}

\* The BufferSizeError constructor each adapter's closure calls
\* (header_name or header_value).
BufferKindOf(a) == IF a \in NameAdapters THEN "HeaderName" ELSE "HeaderValue"

\* The host function each adapter's panic message names.
PanicMessageOf(a) ==
    CASE a = "RequestHandle::get_header_names" -> "fastly_http_req::header_names_get returned error"
      [] a = "RequestHandle::get_header_values" -> "fastly_http_req::header_values_get returned error"
      [] a = "client_original_header_names" -> "fastly_http_req::header_values_get returned error"
      [] a = "ResponseHandle::get_header_names" -> "fastly_http_resp::header_names_get returned error"
      [] a = "ResponseHandle::get_header_values" -> "fastly_http_resp::header_values_get returned error"

\* The items of an adapter's iterator.
AdaptedOk(bytes) ==
    [tag |-> "Ok", bytes |-> bytes, buf_size |-> 0, needed_buf_size |-> 0, buffer_kind |-> "none"]
AdaptedNone ==
    [tag |-> "None", bytes |-> <<>>, buf_size |-> 0, needed_buf_size |-> 0, buffer_kind |-> "none"]

\* A constructor that stores the two sizes the wrong way round.
BufferSizeErrorSwapped(bs, needed, kind) ==
    [tag |-> "BufferSizeError", bytes |-> <<>>, buf_size |-> needed,
     needed_buf_size |-> bs, buffer_kind |-> kind]

\* BufferSizeError::new(buf_size, needed_buf_size, buffer_kind)
BufferSizeError_new(bs, needed, kind) ==
    [tag |-> "BufferSizeError", bytes |-> <<>>, buf_size |-> bs,
     needed_buf_size |-> needed, buffer_kind |-> kind]

\* What the closure does with one value of the reader: the item it yields,
\* or the panic it raises.
Yield(item) == [item |-> item, panic |-> NoPanic]
Raise(msg, code) == [item |-> AdaptedNone, panic |-> AdapterPanic(msg, code)]

\* HeaderName::from_bytes rejects an empty name; the closure unwraps.
OnOk(a, bytes) ==
    IF a \in NameAdapters /\ bytes = <<>>
    THEN Raise("called Result::unwrap() on an Err value: InvalidHeaderName", 0)
    ELSE Yield(AdaptedOk(bytes))

OnBufferTooSmall(a, needed_buf_size, max) ==
    IF max = None
    THEN Raise("maximum buffer size must exist if a buffer size error occurs", 0)
    ELSE Yield(BufferSizeError_new(max[1], needed_buf_size, BufferKindOf(a)))

\* A closure that ends the iteration quietly on a host failure.
ClosureErrorSwallowed(a, e) == Yield(AdaptedNone)

\* panic!("... returned error: {:?}", e)
OnClosureError(a, e) == Raise(PanicMessageOf(a), e)

\* The `.map(move |res| match res { .. })` closure of adapter a.
MapClosure(a, res, max) ==
    CASE res.tag = "Ok" -> OnOk(a, res.bytes)
      [] res.tag = "BufferTooSmall" -> OnBufferTooSmall(a, res.code, max)
      [] res.tag = "ClosureError" -> OnClosureError(a, res.code)
      [] res.tag = "None" -> Yield(AdaptedNone)

\* adapter(buf_size): `_impl(buf_size, Some(buf_size))`, which constructs
\* MultiValueHostcall::new(term, min(buf_size, buf_size), Some(buf_size), ..).
InitAdapter ==
    /\ StartOfExecution
    /\ LibraryAtRest
    /\ src \in Sources
    /\ alloc_slack \in {0, CapSlack}
    /\ adapter \in Adapters
    /\ \E n \in 0 .. MaxBufSize :
          /\ max_buf_size = Some(n)
          /\ buf_size = ClampInitial(Min(n, n), Some(n))
          /\ cap = Reserve(0, ClampInitial(Min(n, n), Some(n)))
    /\ buf = <<>>
    /\ cursor = 0
    /\ is_done = FALSE
    /\ out = <<>>
    /\ fills = <<>>
    /\ panicked = "none"
    /\ retry_of = None
    /\ items = <<>>
    /\ adapter_panic = NoPanic

\* One call of next() on the adapter's iterator: Map::next calls the
\* reader's next() and applies the closure to what it returns.  A panic of
\* the reader unwinds through the adapter.
Adapter_next ==
    /\ adapter \in Adapters
    /\ adapter_panic = NoPanic
    /\ MultiValueHostcall_next
    /\ IF panicked' # "none"
       THEN UNCHANGED <<items, adapter_panic>>
       ELSE LET m == MapClosure(adapter, out'[Len(out')], max_buf_size)
            IN  /\ adapter_panic' = m.panic
                /\ items' = IF m.panic = NoPanic THEN Append(items, m.item) ELSE items
    /\ UNCHANGED adapter
    /\ UNCHANGED <<exec_vars, lib_vars>>

NextAdapter == Adapter_next

SpecAdapter == InitAdapter /\ [][NextAdapter]_vars

\* -------------------------------------------------- one program execution
Running == exec_panic = "none"

\* The execution panics with the given message.
Abort(msg) == exec_panic' = msg

HeldOf(kind) == {h \in handles : h.kind = kind}

\* fastly_http_{req,resp,body}::close on the host: OK for a handle that is
\* open in the session, BADF for one that is not.
HostClose(h, open) == IF h \in open THEN OK ELSE BADF

ClosePanicOf(kind) ==
    CASE kind = "req" -> "fastly_http_req::close failed"
      [] kind = "resp" -> "fastly_http_resp::close failed"
      [] kind = "body" -> "fastly_http_body::close failed"

\* RequestHandle::new, ResponseHandle::new, BodyHandle::new: the host opens
\* a handle and the program holds it.
NewHandle(kind) ==
    /\ Running
    /\ created < MaxHandles
    /\ created' = created + 1
    /\ session' = session \cup {Handle(kind, created + 1)}
    /\ handles' = handles \cup {Handle(kind, created + 1)}
    /\ UNCHANGED <<GOT_CLIENT_REQ, GOT_CLIENT_BODY, SENT, close_calls, close_results,
                   takes, requests, sends, exec_panic>>
    /\ UNCHANGED <<reader_vars, lib_vars>>

RequestHandle_new == NewHandle("req")
ResponseHandle_new == NewHandle("resp")
BodyHandle_new == NewHandle("body")

\* impl Drop for RequestHandle / ResponseHandle / BodyHandle: a handle the
\* program holds goes out of scope.  Every handle value is valid (not
\* INVALID), so drop calls the host's close and expects OK.
Handle_drop ==
    /\ Running
    /\ \E h \in handles :
          /\ handles' = handles \ {h}
          /\ session' = session \ {h}
          /\ close_calls' = [close_calls EXCEPT ![h] = @ + 1]
          /\ exec_panic' = IF HostClose(h, session) = OK THEN "none" ELSE ClosePanicOf(h.kind)
    /\ UNCHANGED <<GOT_CLIENT_REQ, GOT_CLIENT_BODY, SENT, created, close_results,
                   takes, requests, sends>>
    /\ UNCHANGED <<reader_vars, lib_vars>>

CloseResult(h, result) == [h |-> h, result |-> result]

\* close(self) of RequestHandle and ResponseHandle: the host's close is
\* called with self.as_u32(); self is still owned by the function and is
\* dropped when it returns, so Drop::drop runs on the same handle number.
CloseAndDrop(h) ==
    LET first == HostClose(h, session)
        second == HostClose(h, session \ {h})
    IN  /\ handles' = handles \ {h}
        /\ session' = session \ {h}
        /\ close_calls' = [close_calls EXCEPT ![h] = @ + 2]
        /\ IF second = OK
           THEN /\ close_results' = close_results \cup
                        {CloseResult(h, IF first = OK THEN "Ok" ELSE "ClosedHandle")}
                /\ exec_panic' = "none"
           ELSE /\ close_results' = close_results \cup {CloseResult(h, "panicked")}
                /\ Abort(ClosePanicOf(h.kind))
        /\ UNCHANGED <<GOT_CLIENT_REQ, GOT_CLIENT_BODY, SENT, created, takes, requests, sends>>
        /\ UNCHANGED <<reader_vars, lib_vars>>

RequestHandle_close == Running /\ \E h \in HeldOf("req") : CloseAndDrop(h)

ResponseHandle_close == Running /\ \E h \in HeldOf("resp") : CloseAndDrop(h)

\* BodyHandle::close(self): the host's close is called with
\* self.into_u32(), which wraps self in ManuallyDrop, so no drop follows.
BodyHandle_close ==
    /\ Running
    /\ \E h \in HeldOf("body") :
          /\ handles' = handles \ {h}
          /\ session' = session \ {h}
          /\ close_calls' = [close_calls EXCEPT ![h] = @ + 1]
          /\ close_results' = close_results \cup
                  {CloseResult(h, IF HostClose(h, session) = OK THEN "Ok" ELSE "ClosedHandle")}
    /\ UNCHANGED <<GOT_CLIENT_REQ, GOT_CLIENT_BODY, SENT, created, takes, requests, sends, exec_panic>>
    /\ UNCHANGED <<reader_vars, lib_vars>>

\* ---- the client singletons
\* A swap that always reports the flag as clear.
SwapReportsClear(flag) == FALSE

\* AtomicBool::swap(true, SeqCst): sets the flag, returns what it was.
Swap(flag) == flag

\* One attempt to obtain the client request and/or body: the function, the
\* handles it obtained from the host and how it ended.
Take(fn, req, body, outcome) == [fn |-> fn, req |-> req, body |-> body, outcome |-> outcome]

ReqPanic == "cannot get more than one handle to the client request per execution"
BodyPanic == "cannot get more than one handle to the client body per execution"

\* RequestHandle::from_client
RequestHandle_from_client ==
    /\ Running
    /\ GOT_CLIENT_REQ' = TRUE
    /\ IF Swap(GOT_CLIENT_REQ)
       THEN /\ Abort(ReqPanic)
            /\ takes' = Append(takes, Take("RequestHandle::from_client", FALSE, FALSE, "panicked"))
            /\ UNCHANGED handles
       ELSE /\ handles' = handles \cup {ClientReq}
            /\ takes' = Append(takes, Take("RequestHandle::from_client", TRUE, FALSE, "returned"))
            /\ UNCHANGED exec_panic
    /\ UNCHANGED <<GOT_CLIENT_BODY, SENT, session, created, close_calls, close_results, requests, sends>>
    /\ UNCHANGED <<reader_vars, lib_vars>>

\* BodyHandle::from_client
BodyHandle_from_client ==
    /\ Running
    /\ GOT_CLIENT_BODY' = TRUE
    /\ IF Swap(GOT_CLIENT_BODY)
       THEN /\ Abort(BodyPanic)
            /\ takes' = Append(takes, Take("BodyHandle::from_client", FALSE, FALSE, "panicked"))
            /\ UNCHANGED handles
       ELSE /\ handles' = handles \cup {ClientBody}
            /\ takes' = Append(takes, Take("BodyHandle::from_client", FALSE, TRUE, "returned"))
            /\ UNCHANGED exec_panic
    /\ UNCHANGED <<GOT_CLIENT_REQ, SENT, session, created, close_calls, close_results, requests, sends>>
    /\ UNCHANGED <<reader_vars, lib_vars>>

\* The first lines of client_request_and_body: RequestHandle::set_got_client()
\* and then BodyHandle::set_got_client().  The panic it ends with, or "none".
SetBothGotClient ==
    IF Swap(GOT_CLIENT_REQ) THEN ReqPanic
    ELSE IF Swap(GOT_CLIENT_BODY) THEN BodyPanic
    ELSE "none"

\* The flags after those lines: the body flag is only reached when the
\* request flag was clear.
SetBothFlags ==
    /\ GOT_CLIENT_REQ' = TRUE
    /\ GOT_CLIENT_BODY' = (GOT_CLIENT_BODY \/ ~Swap(GOT_CLIENT_REQ))

\* client_request_and_body
client_request_and_body ==
    /\ Running
    /\ SetBothFlags
    /\ IF SetBothGotClient # "none"
       THEN /\ Abort(SetBothGotClient)
            /\ takes' = Append(takes, Take("client_request_and_body", FALSE, FALSE, "panicked"))
            /\ UNCHANGED handles
       ELSE /\ handles' = handles \cup {ClientReq, ClientBody}
            /\ takes' = Append(takes, Take("client_request_and_body", TRUE, TRUE, "returned"))
            /\ UNCHANGED exec_panic
    /\ UNCHANGED <<SENT, session, created, close_calls, close_results, requests, sends>>
    /\ UNCHANGED <<reader_vars, lib_vars>>

\* ---- Request values
\* A Request value: its is_from_client field, and where its request handle
\* came from ("client": the client request of this execution; "handle": a
\* handle made with RequestHandle::new; "new": no handle, Request::new).
Req(is_from_client, origin) == [is_from_client |-> is_from_client, origin |-> origin]

OriginOf(h) == IF h = ClientReq THEN "client" ELSE "handle"

\* Request::new
Request_new ==
    /\ Running
    /\ BagCardinality(requests) < MaxRequests
    /\ requests' = requests (+) SetToBag({Req(FALSE, "new")})
    /\ UNCHANGED <<GOT_CLIENT_REQ, GOT_CLIENT_BODY, SENT, session, handles, created, close_calls,
                   close_results, takes, sends, exec_panic>>
    /\ UNCHANGED <<reader_vars, lib_vars>>

\* Request::clone_without_body
Request_clone_without_body ==
    /\ Running
    /\ BagCardinality(requests) < MaxRequests
    /\ \E r \in BagToSet(requests) :
          requests' = requests (+) SetToBag({Req(r.is_from_client, r.origin)})
    /\ UNCHANGED <<GOT_CLIENT_REQ, GOT_CLIENT_BODY, SENT, session, handles, created, close_calls,
                   close_results, takes, sends, exec_panic>>
    /\ UNCHANGED <<reader_vars, lib_vars>>

\* What Request::from_handles(req_handle, body_handle) does with the
\* handles it is given: it reads the request through req_handle, which it
\* owns and drops when it returns; on success the body moves into the
\* Request, on a BufferSizeError the body is dropped as well.  `bodies` is
\* the set holding body_handle, empty for None.
FromHandles(h, bodies, within_limits, held) ==
    LET dropped == IF within_limits THEN {h} ELSE {h} \cup bodies
    IN  /\ handles' = held \ ({h} \cup bodies)
        /\ session' = session \ dropped
        /\ close_calls' = [x \in AllHandles |->
                              IF x \in dropped THEN close_calls[x] + 1 ELSE close_calls[x]]
        /\ requests' = IF within_limits
                       THEN requests (+) SetToBag({Req(TRUE, OriginOf(h))})
                       ELSE requests

\* Request::from_handles
Request_from_handles ==
    /\ Running
    /\ BagCardinality(requests) < MaxRequests
    /\ \E h \in HeldOf("req"), bodies \in {{}} \cup {{b} : b \in HeldOf("body")},
          within_limits \in BOOLEAN :
          FromHandles(h, bodies, within_limits, handles)
    /\ UNCHANGED <<GOT_CLIENT_REQ, GOT_CLIENT_BODY, SENT, created, close_results, takes, sends, exec_panic>>
    /\ UNCHANGED <<reader_vars, lib_vars>>

\* Request::try_from_client: client_request_and_body, then from_handles.
Request_try_from_client ==
    /\ Running
    /\ BagCardinality(requests) < MaxRequests
    /\ SetBothFlags
    /\ IF SetBothGotClient # "none"
       THEN /\ Abort(SetBothGotClient)
            /\ takes' = Append(takes, Take("Request::try_from_client", FALSE, FALSE, "panicked"))
            /\ UNCHANGED <<handles, session, close_calls, requests>>
       ELSE \E within_limits \in BOOLEAN :
                /\ FromHandles(ClientReq, {ClientBody}, within_limits, handles)
                /\ takes' = Append(takes, Take("Request::try_from_client", TRUE, TRUE,
                                                IF within_limits THEN "returned" ELSE "BufferSizeError"))
                /\ UNCHANGED exec_panic
    /\ UNCHANGED <<SENT, created, close_results, sends>>
    /\ UNCHANGED <<reader_vars, lib_vars>>

\* ---- sending the response to the client
\* A host that accepts any number of downstream responses.
send_downstream_unchecked == OK

\* fastly_http_resp::send_downstream on the host: an execution may send a
\* single response to the client; a further one is refused.
send_downstream ==
    IF \E i \in 1 .. Len(sends) : sends[i].outcome = "sent" THEN ERROR ELSE OK

Send(via, outcome) == [via |-> via, outcome |-> outcome]

SendPanic == "fastly_http_resp::send_downstream failed"

\* Response::send_to_client_impl(streaming, panic_on_multiple_send): the
\* SENT flag is swapped, the Response is turned into handles and sent
\* through ResponseHandle::send_to_client / stream_to_client, which expect
\* the host to answer OK.
SendToClientImpl(via, panic_on_multiple_send, then_panic) ==
    /\ SENT' = TRUE
    /\ IF Swap(SENT) /\ panic_on_multiple_send
       THEN /\ Abort("cannot send more than one client response per execution")
            /\ sends' = Append(sends, Send(via, "panicked"))
       ELSE IF send_downstream # OK
       THEN /\ Abort(SendPanic)
            /\ sends' = Append(sends, Send(via, "panicked"))
       ELSE /\ sends' = Append(sends, Send(via, "sent"))
            /\ exec_panic' = then_panic

\* Response::send_to_client
Response_send_to_client ==
    /\ Running
    /\ SendToClientImpl("Response::send_to_client", TRUE, "none")
    /\ UNCHANGED <<GOT_CLIENT_REQ, GOT_CLIENT_BODY, session, handles, created, close_calls,
                   close_results, takes, requests>>
    /\ UNCHANGED <<reader_vars, lib_vars>>

\* Response::stream_to_client
Response_stream_to_client ==
    /\ Running
    /\ SendToClientImpl("Response::stream_to_client", TRUE, "none")
    /\ UNCHANGED <<GOT_CLIENT_REQ, GOT_CLIENT_BODY, session, handles, created, close_calls,
                   close_results, takes, requests>>
    /\ UNCHANGED <<reader_vars, lib_vars>>

\* ResponseHandle::send_to_client(self, body) and stream_to_client(self,
\* body): the handles are handed to the host (into_u32; the streaming body
\* handle takes the body over) and the host's answer is expected to be OK.
\* The SENT flag is not involved.
HandleSend(via) ==
    \E h \in HeldOf("resp"), b \in HeldOf("body") :
        /\ handles' = handles \ {h, b}
        /\ IF send_downstream # OK
           THEN /\ Abort(SendPanic)
                /\ sends' = Append(sends, Send(via, "panicked"))
                /\ UNCHANGED session
           ELSE /\ sends' = Append(sends, Send(via, "sent"))
                /\ session' = session \ {h, b}
                /\ UNCHANGED exec_panic
        /\ UNCHANGED <<GOT_CLIENT_REQ, GOT_CLIENT_BODY, SENT, created, close_calls,
                       close_results, takes, requests>>
        /\ UNCHANGED <<reader_vars, lib_vars>>

ResponseHandle_send_to_client == Running /\ HandleSend("ResponseHandle::send_to_client")

ResponseHandle_stream_to_client == Running /\ HandleSend("ResponseHandle::stream_to_client")

\* Request::from_client: try_from_client; on a BufferSizeError,
\* panic_with_status!(400, ..) sends a response with
\* send_to_client_impl(false, false) and panics.
Request_from_client ==
    /\ Running
    /\ BagCardinality(requests) < MaxRequests
    /\ SetBothFlags
    /\ IF SetBothGotClient # "none"
       THEN /\ Abort(SetBothGotClient)
            /\ takes' = Append(takes, Take("Request::from_client", FALSE, FALSE, "panicked"))
            /\ UNCHANGED <<handles, session, close_calls, requests, SENT, sends>>
       ELSE \E within_limits \in BOOLEAN :
                /\ FromHandles(ClientReq, {ClientBody}, within_limits, handles)
                /\ takes' = Append(takes, Take("Request::from_client", TRUE, TRUE,
                                                IF within_limits THEN "returned" ELSE "panicked"))
                /\ IF within_limits
                   THEN UNCHANGED <<SENT, sends, exec_panic>>
                   ELSE SendToClientImpl("panic_with_status", FALSE,
                                         "fastly::limits::RequestLimits exceeded")
    /\ UNCHANGED <<created, close_results>>
    /\ UNCHANGED <<reader_vars, lib_vars>>

NextExecution ==
    \/ RequestHandle_new
    \/ ResponseHandle_new
    \/ BodyHandle_new
    \/ Handle_drop
    \/ RequestHandle_close
    \/ ResponseHandle_close
    \/ BodyHandle_close
    \/ RequestHandle_from_client
    \/ BodyHandle_from_client
    \/ client_request_and_body
    \/ Request_new
    \/ Request_clone_without_body
    \/ Request_from_handles
    \/ Request_try_from_client
    \/ Request_from_client
    \/ Response_send_to_client
    \/ Response_stream_to_client
    \/ ResponseHandle_send_to_client
    \/ ResponseHandle_stream_to_client

\* The reader is not in use during the execution modelled here.
InitExecution ==
    /\ StartOfExecution
    /\ LibraryAtRest
    /\ src = <<>>
    /\ alloc_slack = 0
    /\ max_buf_size = None
    /\ buf_size = 0
    /\ cap = 0
    /\ buf = <<>>
    /\ cursor = 0
    /\ is_done = FALSE
    /\ out = <<>>
    /\ fills = <<>>
    /\ panicked = "none"
    /\ retry_of = None
    /\ adapter = "none"
    /\ items = <<>>
    /\ adapter_panic = NoPanic

SpecExecution == InitExecution /\ [][NextExecution]_vars

\* ------------------------------------------- the limits and Request reading
\* The values a program passes to a set_max_*_bytes function.
LimitChoices(default) == {None, Some(default), Some(SmallLimit)}

\* A write to REQUEST_LIMITS.
SetRequestLimits(new) ==
    /\ REQUEST_LIMITS' = new
    /\ conversion' = NoConversion
    /\ UNCHANGED <<RESPONSE_LIMITS, response_limits_call, response_conversion>>
    /\ UNCHANGED non_limits_vars

RequestLimits_set_all_default == SetRequestLimits(RequestLimits_default)

RequestLimits_set_all_disabled ==
    SetRequestLimits([max_header_name_bytes |-> None, max_header_value_bytes |-> None,
                      max_method_bytes |-> None, max_url_bytes |-> None])

RequestLimits_set_max_header_name_bytes ==
    \E max \in LimitChoices(DEFAULT_MAX_HEADER_NAME_BYTES) :
        SetRequestLimits([REQUEST_LIMITS EXCEPT !.max_header_name_bytes = max])

RequestLimits_set_max_header_value_bytes ==
    \E max \in LimitChoices(DEFAULT_MAX_HEADER_VALUE_BYTES) :
        SetRequestLimits([REQUEST_LIMITS EXCEPT !.max_header_value_bytes = max])

RequestLimits_set_max_method_bytes ==
    \E max \in LimitChoices(DEFAULT_MAX_METHOD_BYTES) :
        SetRequestLimits([REQUEST_LIMITS EXCEPT !.max_method_bytes = max])

RequestLimits_set_max_url_bytes ==
    \E max \in LimitChoices(DEFAULT_MAX_URL_BYTES) :
        SetRequestLimits([REQUEST_LIMITS EXCEPT !.max_url_bytes = max])

\* A write to RESPONSE_LIMITS by the named function.
SetResponseLimits(fn, new) ==
    /\ RESPONSE_LIMITS' = new
    /\ response_limits_call' = fn
    /\ response_conversion' = NoConversion
    /\ UNCHANGED <<REQUEST_LIMITS, conversion>>
    /\ UNCHANGED non_limits_vars

ResponseLimits_set_all_default ==
    SetResponseLimits("ResponseLimits::set_all_default", ResponseLimits_default)

ResponseLimits_set_all_disabled ==
    SetResponseLimits("ResponseLimits::set_all_disabled",
                      [max_header_name_bytes |-> None, max_header_value_bytes |-> None])

ResponseLimits_set_max_header_name_bytes ==
    \E max \in LimitChoices(DEFAULT_MAX_HEADER_NAME_BYTES) :
        SetResponseLimits("ResponseLimits::set_max_header_name_bytes",
                          [RESPONSE_LIMITS EXCEPT !.max_header_name_bytes = max])

ResponseLimits_set_max_header_value_bytes ==
    \E max \in LimitChoices(DEFAULT_MAX_HEADER_VALUE_BYTES) :
        SetResponseLimits("ResponseLimits::set_max_header_value_bytes",
                          [RESPONSE_LIMITS EXCEPT !.max_header_value_bytes = max])

\* ResponseLimits::get_max_header_name_bytes / get_max_header_value_bytes
ResponseLimits_get_max_header_name_bytes == RESPONSE_LIMITS.max_header_name_bytes
ResponseLimits_get_max_header_value_bytes == RESPONSE_LIMITS.max_header_value_bytes

\* The result of reading one component of the request.
ReadOk == [tag |-> "Ok", buf_size |-> 0, needed_buf_size |-> 0, buffer_kind |-> "none"]
ReadErr(bs, needed, kind) ==
    [tag |-> "BufferSizeError", buf_size |-> bs, needed_buf_size |-> needed, buffer_kind |-> kind]

\* RequestHandle::get_method(max_length) / get_url(max_length) when the
\* host holds a value of `required` bytes: a buffer of capacity at least
\* max_length is passed; the host answers BUFLEN with the size it needs
\* when the value does not fit.
GetSingle(max_length, required, kind) ==
    IF required <= Reserve(0, max_length)
    THEN ReadOk
    ELSE ReadErr(max_length, required, kind)

\* RequestHandle::get_method_impl / get_url_impl
GetSingleImpl(initial_buf_size, max, required, kind) ==
    LET first == GetSingle(ClampInitial(initial_buf_size, max), required, kind)
    IN  IF first.tag = "Ok" THEN first
        ELSE IF max # None
             THEN IF first.needed_buf_size <= max[1]
                  THEN GetSingle(first.needed_buf_size, required, kind)
                  ELSE ReadErr(max[1], first.needed_buf_size, kind)
             ELSE GetSingle(first.needed_buf_size, required, kind)

\* RequestHandle::get_header_names_impl / get_header_values_impl as
\* Request::from_handles iterates them, when the first fill_buf call needs
\* `required` bytes: the reader is constructed with the clamped initial
\* size, a BUFLEN answer is retried when buffer_can_grow allows it, and the
\* closure turns BufferTooSmall into a BufferSizeError.
GetMultiImpl(initial_buf_size, max, required, kind) ==
    LET c1 == Reserve(0, ClampInitial(ClampInitial(initial_buf_size, max), max))
    IN  IF required <= c1 THEN ReadOk
        ELSE IF BufferCanGrow(required, max) /\ required # 0
             THEN ReadOk
             ELSE ReadErr(max[1], required, kind)

\* The sizes the host may need for a component read with the given initial
\* size under the given limit: a small one, one at the limit and one past it.
RequiredChoices(initial_buf_size, max) ==
    {1} \cup (IF max = None THEN {initial_buf_size + 1} ELSE {max[1], max[1] + 1})

\* The components in the order Request::from_handles reads them; `?`
\* returns the first BufferSizeError.
FirstErr(method, url, name, value) ==
    IF method.tag # "Ok" THEN method
    ELSE IF url.tag # "Ok" THEN url
    ELSE IF name.tag # "Ok" THEN name
    ELSE value

\* Request::from_handles (also reached through Request::try_from_client):
\* the reading of method, URL, header names and header values under
\* REQUEST_LIMITS.
Request_from_handles_read ==
    \E m \in RequiredChoices(INITIAL_METHOD_BUF_SIZE, REQUEST_LIMITS.max_method_bytes),
       u \in RequiredChoices(INITIAL_URL_BUF_SIZE, REQUEST_LIMITS.max_url_bytes),
       n \in RequiredChoices(INITIAL_HEADER_NAME_BUF_SIZE, REQUEST_LIMITS.max_header_name_bytes),
       v \in RequiredChoices(INITIAL_HEADER_VALUE_BUF_SIZE, REQUEST_LIMITS.max_header_value_bytes) :
        LET res == FirstErr(
                GetSingleImpl(INITIAL_METHOD_BUF_SIZE, REQUEST_LIMITS.max_method_bytes, m, "HttpMethod"),
                GetSingleImpl(INITIAL_URL_BUF_SIZE, REQUEST_LIMITS.max_url_bytes, u, "Url"),
                GetMultiImpl(INITIAL_HEADER_NAME_BUF_SIZE, REQUEST_LIMITS.max_header_name_bytes, n, "HeaderName"),
                GetMultiImpl(INITIAL_HEADER_VALUE_BUF_SIZE, REQUEST_LIMITS.max_header_value_bytes, v, "HeaderValue"))
        IN  /\ conversion' =
                  [called |-> TRUE,
                   required |-> [max_method_bytes |-> m, max_url_bytes |-> u,
                                 max_header_name_bytes |-> n, max_header_value_bytes |-> v],
                   tag |-> res.tag, buf_size |-> res.buf_size,
                   needed_buf_size |-> res.needed_buf_size, buffer_kind |-> res.buffer_kind]
            /\ UNCHANGED <<REQUEST_LIMITS, RESPONSE_LIMITS, response_limits_call,
                           response_conversion>>
            /\ UNCHANGED non_limits_vars

\* Response::from_handles: the reading of header names and header values
\* under RESPONSE_LIMITS.
Response_from_handles_read ==
    \E n \in RequiredChoices(DEFAULT_MAX_HEADER_NAME_BYTES, RESPONSE_LIMITS.max_header_name_bytes),
       v \in RequiredChoices(DEFAULT_MAX_HEADER_VALUE_BYTES, RESPONSE_LIMITS.max_header_value_bytes) :
        LET res == FirstErr(ReadOk, ReadOk,
                GetMultiImpl(DEFAULT_MAX_HEADER_NAME_BYTES, RESPONSE_LIMITS.max_header_name_bytes, n, "HeaderName"),
                GetMultiImpl(DEFAULT_MAX_HEADER_VALUE_BYTES, RESPONSE_LIMITS.max_header_value_bytes, v, "HeaderValue"))
        IN  /\ response_conversion' =
                  [called |-> TRUE,
                   required |-> [max_header_name_bytes |-> n, max_header_value_bytes |-> v],
                   tag |-> res.tag, buf_size |-> res.buf_size,
                   needed_buf_size |-> res.needed_buf_size, buffer_kind |-> res.buffer_kind]
            /\ UNCHANGED <<REQUEST_LIMITS, RESPONSE_LIMITS, response_limits_call, conversion>>
            /\ UNCHANGED non_limits_vars

NextLimits ==
    \/ RequestLimits_set_all_default
    \/ RequestLimits_set_all_disabled
    \/ RequestLimits_set_max_header_name_bytes
    \/ RequestLimits_set_max_header_value_bytes
    \/ RequestLimits_set_max_method_bytes
    \/ RequestLimits_set_max_url_bytes
    \/ Request_from_handles_read

NextResponseLimits ==
    \/ ResponseLimits_set_all_default
    \/ ResponseLimits_set_all_disabled
    \/ ResponseLimits_set_max_header_name_bytes
    \/ ResponseLimits_set_max_header_value_bytes
    \/ Response_from_handles_read

\* No reader session is in use.
ReaderIdle ==
    /\ src = <<>>
    /\ max_buf_size = None
    /\ buf_size = 0
    /\ cap = 0
    /\ buf = <<>>
    /\ cursor = 0
    /\ is_done = FALSE
    /\ out = <<>>
    /\ fills = <<>>
    /\ panicked = "none"
    /\ retry_of = None
    /\ adapter = "none"
    /\ items = <<>>
    /\ adapter_panic = NoPanic

InitLimits ==
    /\ StartOfExecution
    /\ LibraryAtRest
    /\ ReaderIdle
    /\ alloc_slack \in {0, CapSlack}

SpecLimits == InitLimits /\ [][NextLimits]_vars

SpecResponseLimits == InitLimits /\ [][NextResponseLimits]_vars

\* ------------------------------------------------------------ backend names
\* A name is a sequence of chars (Unicode scalar values). The chars tried:
\* newline, space, '!', 'a', '~', DELETE, e-acute and the Pisces sign.
Chars == {10, 32, 33, 97, 126, 127, 233, 9811}

\* char::len_utf8
len_utf8(c) == IF c < 128 THEN 1 ELSE IF c < 2048 THEN 2 ELSE IF c < 65536 THEN 3 ELSE 4

\* str::len: the length of the name's UTF-8 encoding in bytes.
str_len(name) ==
    LET ix(w) == {i \in 1 .. Len(name) : len_utf8(name[i]) = w}
    IN  Cardinality(ix(1)) + 2 * Cardinality(ix(2)) + 3 * Cardinality(ix(3))
        + 4 * Cardinality(ix(4))

\* char::is_ascii_graphic: U+0021 '!' ..= U+007E '~'
is_ascii_graphic(c) == c \in 33 .. 126

is_invalid_char(c) == c # 32 /\ ~is_ascii_graphic(c)

\* A variant of validate_backend whose length test is >= instead of >.
validate_backend_inclusive(backend) ==
    IF Len(backend) = 0 THEN "EmptyName"
    ELSE IF str_len(backend) >= MAX_BACKEND_NAME_LEN THEN "TooLong"
    ELSE IF \E i \in 1 .. Len(backend) : is_invalid_char(backend[i]) THEN "InvalidName"
    ELSE "Ok"

validate_backend(backend) ==
    IF Len(backend) = 0 THEN "EmptyName"
    ELSE IF str_len(backend) > MAX_BACKEND_NAME_LEN THEN "TooLong"
    ELSE IF \E i \in 1 .. Len(backend) : is_invalid_char(backend[i]) THEN "InvalidName"
    ELSE "Ok"

\* The numbers of chars tried: near zero, and near the counts at which
\* names of one-, two- and three-byte chars reach MAX_BACKEND_NAME_LEN bytes.
NameLens ==
    (0 .. NameSlack) \cup
    {MAX_BACKEND_NAME_LEN \div w + d : w \in 1 .. 3, d \in (0 - NameSlack) .. NameSlack}

\* The names tried: one char repeated, with at most one other char at
\* either end.
BackendNames ==
    UNION {{[i \in 1 .. n |-> IF i = pos THEN odd ELSE fill] :
                fill \in {32, 97, 233, 9811}, odd \in Chars, pos \in {1, n}} :
           n \in NameLens}

\* validate_backend(backend_name)
validate_backend_call ==
    /\ backend_call = "none"
    /\ backend_call' = "validate_backend"
    /\ backend_result' = [tag |-> validate_backend(backend_name), name |-> None]
    /\ UNCHANGED backend_name
    /\ UNCHANGED non_backend_vars

\* Backend::from_name(backend_name), which is <Backend as FromStr>::from_str
Backend_from_name ==
    /\ backend_call = "none"
    /\ backend_call' = "Backend::from_name"
    /\ backend_result' =
          LET v == validate_backend(backend_name)
          IN  IF v = "Ok" THEN [tag |-> "Ok", name |-> Some(backend_name)]
              ELSE [tag |-> v, name |-> None]
    /\ UNCHANGED backend_name
    /\ UNCHANGED non_backend_vars

NextBackend ==
    \/ validate_backend_call
    \/ Backend_from_name

InitBackend ==
    /\ StartOfExecution
    /\ LimitsAtStart
    /\ CacheAtStart
    /\ BodyAtStart
    /\ ReaderIdle
    /\ alloc_slack = 0
    /\ backend_name \in BackendNames
    /\ backend_call = "none"
    /\ backend_result = [tag |-> "none", name |-> <<>>]

SpecBackend == InitBackend /\ [][NextBackend]_vars

\* ---------------------------------------------------------- the simple cache
CacheValues == 1 .. MaxValues

FreshItem(v, swr) == [state |-> "fresh", value |-> v, swr |-> swr]

\* CacheLookupState, as the set of its flags, that a transactional lookup
\* of the key reports to this client: a fresh entry is found and usable; a
\* stale entry within its stale-while-revalidate period is found, and one
\* client is designated to freshen it; for a missing entry one client is
\* instructed to insert it.
LookupState(item, other) ==
    IF item.state = "fresh" THEN {"FOUND", "USABLE"}
    ELSE IF item.state = "stale"
         THEN {"FOUND", "USABLE", "STALE"} \cup
              (IF other THEN {} ELSE {"MUST_INSERT_OR_UPDATE"})
         ELSE {"MUST_INSERT_OR_UPDATE"}

\* Transaction::found, with the value Found::to_stream reads
Transaction_found(state, item) == IF "FOUND" \in state THEN Some(item.value) ELSE None

\* A variant of must_insert_or_update that is true for every lookup.
must_insert_or_update_always(state) == TRUE

\* Transaction::must_insert_or_update
Transaction_must_insert_or_update(state) == "MUST_INSERT_OR_UPDATE" \in state

CacheOk(v) == [tag |-> "Ok", value |-> Some(v)]
CacheErr(e) == [tag |-> e, value |-> None]

CacheCall(state, found, ran, result) ==
    [state |-> state, found |-> found, ran |-> ran, result |-> result,
     item |-> cache_item.state, other |-> cache_other]

\* simple::get_or_set_with(key, make_entry), where make_entry returns
\* Ok(CacheEntry) with a value or Err. A lookup of a missing entry that
\* another client is inserting blocks until that client is done.
get_or_set_with ==
    /\ Len(cache_calls) < MaxCacheCalls
    /\ ~(cache_item.state = "absent" /\ cache_other)
    /\ \E make_entry \in {None} \cup {Some(v) : v \in CacheValues} :
        LET state == LookupState(cache_item, cache_other)
            found == Transaction_found(state, cache_item)
        IN  IF ~Transaction_must_insert_or_update(state)
            THEN /\ cache_calls' = Append(cache_calls,
                        CacheCall(state, found, FALSE,
                                  IF found # None THEN CacheOk(found[1])
                                  ELSE CacheErr("InvalidOperation")))
                 /\ UNCHANGED <<cache_item, cache_other>>
            ELSE IF make_entry = None
            THEN /\ cache_calls' = Append(cache_calls,
                        CacheCall(state, found, TRUE, CacheErr("GetOrSet")))
                 /\ UNCHANGED <<cache_item, cache_other>>
            ELSE /\ cache_item' = FreshItem(make_entry[1], FALSE)
                 /\ cache_calls' = Append(cache_calls,
                        CacheCall(state, found, TRUE, CacheOk(make_entry[1])))
                 /\ UNCHANGED cache_other
    /\ UNCHANGED non_cache_vars

\* Another client's transactional lookup is given the obligation to insert
\* or update the entry.
Other_lookup ==
    /\ cache_item.state # "fresh"
    /\ ~cache_other
    /\ cache_other' = TRUE
    /\ UNCHANGED <<cache_item, cache_calls>>
    /\ UNCHANGED non_cache_vars

\* The other client inserts, with or without a stale-while-revalidate period.
Other_insert ==
    /\ cache_other
    /\ \E v \in CacheValues, swr \in BOOLEAN : cache_item' = FreshItem(v, swr)
    /\ cache_other' = FALSE
    /\ UNCHANGED cache_calls
    /\ UNCHANGED non_cache_vars

\* The other client gives its obligation up.
Other_cancel ==
    /\ cache_other
    /\ cache_other' = FALSE
    /\ UNCHANGED <<cache_item, cache_calls>>
    /\ UNCHANGED non_cache_vars

\* Time passes: a fresh entry outlives its TTL, a stale one its
\* stale-while-revalidate period.
Age ==
    /\ cache_item.state # "absent"
    /\ cache_item' =
          IF cache_item.state = "fresh" /\ cache_item.swr
          THEN [cache_item EXCEPT !.state = "stale"]
          ELSE NoItem
    /\ UNCHANGED <<cache_other, cache_calls>>
    /\ UNCHANGED non_cache_vars

NextCache ==
    \/ get_or_set_with
    \/ Other_lookup
    \/ Other_insert
    \/ Other_cancel
    \/ Age

InitCache ==
    /\ StartOfExecution
    /\ LibraryAtRest
    /\ ReaderIdle
    /\ alloc_slack = 0

SpecCache == InitCache /\ [][NextCache]_vars

\* ------------------------------------------------------------------ bodies
\* The byte strings a body is made from: each byte tells its position.
Contents == {[i \in 1 .. n |-> i] : n \in 0 .. MaxBody}

\* A byte that no body holds.
Marker == MaxBody + 1

DropFirst(s, n) == SubSeq(s, n + 1, Len(s))

\* What reading the body to its end would give: the reader's buffer, then
\* the host's bytes, then the bytes still in the writer's buffer.
Content == body_reader \o body_host \o body_writer

\* self.take(length).read_to_end(&mut buf) over Body::read, once the writer
\* is flushed: the outcomes <<buf, reader buffer, host bytes>>. Buffered
\* bytes are served first; with an empty buffer the BufReader reads up to
\* its capacity from the host, which gives at least one byte until its end.
RECURSIVE ReadToEnd(_, _, _, _)
ReadToEnd(rbuf, host, limit, acc) ==
    IF limit = 0 THEN {<<acc, rbuf, host>>}
    ELSE IF rbuf # <<>>
    THEN LET d == Min(limit, Len(rbuf))
         IN  ReadToEnd(DropFirst(rbuf, d), host, limit - d, acc \o SubSeq(rbuf, 1, d))
    ELSE IF host = <<>> THEN {<<acc, <<>>, <<>>>>}
    ELSE UNION {ReadToEnd(SubSeq(host, 1, m), DropFirst(host, m), limit, acc) :
                   m \in 1 .. Min(ReaderCap, Len(host))}

\* Body::put_back_read_buf on <<reader buffer, host bytes>>
put_back_read_buf(rbuf, host) == <<<<>>, rbuf \o host>>

\* A variant of Prefix::drop that leaves the reader's buffer where it is.
drop_without_put_back(pbuf, rbuf, host) == <<rbuf, pbuf \o host>>

\* Prefix::drop with buf = Some(buf): the read buffer goes back to the
\* front of the body, then the prefix goes in front of it.
Prefix_write_back(pbuf, rbuf, host) ==
    LET back == put_back_read_buf(rbuf, host)
    IN  <<back[1], pbuf \o back[2]>>

\* Write::write on the body: the BufWriter buffers the byte, which tells
\* its position in the body.
Body_write ==
    /\ body_read = None
    /\ prefix.state # "held"
    /\ Len(Content) < MaxBody
    /\ body_writer' = Append(body_writer, Len(Content) + 1)
    /\ prefix' = NoPrefix
    /\ body_before' = <<>>
    /\ UNCHANGED <<body_reader, body_host, body_read>>
    /\ UNCHANGED non_body_vars

\* BufRead::fill_buf on the body
Body_fill_buf ==
    /\ body_read = None
    /\ prefix.state # "held"
    /\ LET host == body_host \o body_writer
       IN  IF body_reader = <<>> /\ host # <<>>
           THEN \E m \in 1 .. Min(ReaderCap, Len(host)) :
                   /\ body_reader' = SubSeq(host, 1, m)
                   /\ body_host' = DropFirst(host, m)
           ELSE /\ body_host' = host
                /\ UNCHANGED body_reader
    /\ body_writer' = <<>>
    /\ UNCHANGED <<prefix, body_before, body_read>>
    /\ UNCHANGED non_body_vars

\* Body::get_prefix_mut(length)
Body_get_prefix_mut ==
    /\ body_read = None
    /\ prefix.state # "held"
    /\ \E length \in 0 .. MaxBody + 1 :
        LET flushed == IF length = 0 THEN body_host ELSE body_host \o body_writer
        IN  \E o \in ReadToEnd(body_reader, flushed, length, <<>>) :
                /\ prefix' = [state |-> "held", buf |-> o[1], orig |-> o[1], modified |-> FALSE]
                /\ body_reader' = o[2]
                /\ body_host' = o[3]
                /\ body_writer' = IF length = 0 THEN body_writer ELSE <<>>
    /\ body_before' = Content
    /\ UNCHANGED body_read
    /\ UNCHANGED non_body_vars

\* DerefMut on the Prefix: the program overwrites the first byte of the
\* Vec, or clears it.
Prefix_modify ==
    /\ prefix.state = "held"
    /\ prefix.buf # <<>>
    /\ \/ prefix' = [prefix EXCEPT !.buf = [@ EXCEPT ![1] = Marker], !.modified = TRUE]
       \/ prefix' = [prefix EXCEPT !.buf = <<>>, !.modified = TRUE]
    /\ UNCHANGED <<body_reader, body_host, body_writer, body_before, body_read>>
    /\ UNCHANGED non_body_vars

\* The Prefix goes out of scope.
Prefix_drop ==
    /\ prefix.state = "held"
    /\ LET back == Prefix_write_back(prefix.buf, body_reader, body_host)
       IN  /\ body_reader' = back[1]
           /\ body_host' = back[2]
    /\ prefix' = [prefix EXCEPT !.state = "dropped"]
    /\ UNCHANGED <<body_writer, body_before, body_read>>
    /\ UNCHANGED non_body_vars

\* Prefix::take(): buf becomes None, so the drop at the end of take writes
\* nothing.
Prefix_take ==
    /\ prefix.state = "held"
    /\ prefix' = [prefix EXCEPT !.state = "taken"]
    /\ UNCHANGED <<body_reader, body_host, body_writer, body_before, body_read>>
    /\ UNCHANGED non_body_vars

\* Body::into_bytes(): into_handle puts the read buffer back and flushes
\* the writer, then the handle is read to its end.
Body_into_bytes ==
    /\ body_read = None
    /\ prefix.state # "held"
    /\ LET back == put_back_read_buf(body_reader, body_host)
       IN  /\ body_read' = Some(back[2] \o body_writer)
           /\ body_reader' = back[1]
    /\ body_host' = <<>>
    /\ body_writer' = <<>>
    /\ UNCHANGED <<prefix, body_before>>
    /\ UNCHANGED non_body_vars

NextBody ==
    \/ Body_write
    \/ Body_fill_buf
    \/ Body_get_prefix_mut
    \/ Prefix_modify
    \/ Prefix_drop
    \/ Prefix_take
    \/ Body_into_bytes

\* Body::from(bytes)
InitBody ==
    /\ StartOfExecution
    /\ LimitsAtStart
    /\ BackendAtStart
    /\ CacheAtStart
    /\ ReaderIdle
    /\ alloc_slack = 0
    /\ body_reader = <<>>
    /\ body_host \in Contents
    /\ body_writer = <<>>
    /\ prefix = NoPrefix
    /\ body_before = <<>>
    /\ body_read = None

SpecBody == InitBody /\ [][NextBody]_vars

\* ----------------------------------------------------------- observations
\* The fill_buf call number i was the retry of the call before it.
IsRetry(i) == i > 1 /\ fills[i - 1].status = BUFLEN

\* The elements yielded so far, in order.
RECURSIVE OkBytes(_)
OkBytes(its) ==
    IF its = <<>> THEN <<>>
    ELSE IF Head(its).tag = "Ok"
         THEN <<Head(its).bytes>> \o OkBytes(Tail(its))
         ELSE OkBytes(Tail(its))

\* The first fill_buf call delivered the whole source at once.
FirstFillDeliversAll ==
    /\ Len(fills) >= 1
    /\ Len(src) >= 1
    /\ fills[1].status = OK
    /\ fills[1].ending < 0
    /\ fills[1].data = Encode(src)
    /\ fills[1].nwritten = Len(Encode(src))

\* C1: when the whole source, N elements of fewer bytes in total than the
\* initial capacity, arrives with the first fill (status OK, negative ending
\* cursor), the calls of next() yield exactly the N elements in host order,
\* each without its terminator, and after them None; nothing else is called
\* and nothing panics.
C1_RoundTrip ==
    (FirstFillDeliversAll /\ Len(Encode(src)) < buf_size) =>
        /\ panicked = "none"
        /\ Len(fills) = 1
        /\ \A i \in 1 .. Len(out) :
              out[i] = IF i <= Len(src) THEN ItemOk(src[i]) ELSE ItemNone

\* A session that has yielded two elements of different lengths from one
\* fill and then None.
C1_Witness ==
    /\ FirstFillDeliversAll
    /\ Len(Encode(src)) < buf_size
    /\ Len(src) = 2
    /\ Len(src[1]) # Len(src[2])
    /\ Len(out) = 3
    /\ OkBytes(out) = src
    /\ out[3] = ItemNone

\* The number of elements the first i fill_buf calls delivered.
RECURSIVE TermCount(_)
TermCount(b) ==
    IF b = <<>> THEN 0
    ELSE (IF Head(b) = TermByte THEN 1 ELSE 0) + TermCount(Tail(b))

RECURSIVE Delivered(_)
Delivered(i) ==
    IF i = 0 THEN 0
    ELSE Delivered(i - 1)
         + (IF fills[i].status = OK /\ fills[i].nwritten <= fills[i].cap
            THEN TermCount(fills[i].data) ELSE 0)

\* The positions of out that hold an error item.
ErrPositions == {j \in 1 .. Len(out) : out[j].tag \in {"BufferTooSmall", "ClosureError"}}

\* The fill_buf call number i, the first of its next(), answered BUFLEN
\* asking for more than max_buf_size.
ExceedsMax(i) ==
    /\ ~IsRetry(i)
    /\ fills[i].status = BUFLEN
    /\ max_buf_size # None
    /\ fills[i].nwritten > max_buf_size[1]

\* C2, as stated: when a fill answers BUFLEN with a required size above
\* max_buf_size, the session yields exactly one Err(BufferTooSmall) with that
\* size, makes no retry, yields no element before or after the error, returns
\* None from then on and does not panic.
C2_Original ==
    \A i \in 1 .. Len(fills) : ExceedsMax(i) =>
        /\ i = Len(fills)
        /\ panicked = "none"
        /\ Len(out) >= 1
        /\ out[1] = ItemBufferTooSmall(fills[i].nwritten)
        /\ \A j \in 2 .. Len(out) : out[j] = ItemNone

\* C2, amended: when the first fill call of a next() answers BUFLEN with a
\* required size above max_buf_size, that next() yields
\* Err(BufferTooSmall) with exactly that size; there is no retry and no
\* panic, it is the only error item of the session, every later next()
\* returns None, and the only elements before it are the ones earlier fills
\* delivered (none when the answer is to the first fill of the session).
C2_CapacityExceeded ==
    \A i \in 1 .. Len(fills) : ExceedsMax(i) =>
        LET e == Delivered(i - 1) + 1
        IN  /\ i = Len(fills)
            /\ panicked = "none"
            /\ is_done
            /\ Len(out) >= e
            /\ out[e] = ItemBufferTooSmall(fills[i].nwritten)
            /\ ErrPositions = {e}
            /\ \A j \in 1 .. (e - 1) : out[j].tag = "Ok"
            /\ \A j \in (e + 1) .. Len(out) : out[j] = ItemNone
            /\ (i = 1 => e = 1)

\* The first fill asked for a batch of 3 bytes or more, above max_buf_size:
\* the session yielded the error and then None twice.
C2_Witness ==
    /\ Len(fills) = 1
    /\ ExceedsMax(1)
    /\ fills[1].kind = "batch"
    /\ fills[1].nwritten >= 3
    /\ out = <<ItemBufferTooSmall(fills[1].nwritten), ItemNone, ItemNone>>

\* C3: when the first fill answers BUFLEN with a required size R that may be
\* grown to (no max_buf_size, or R below it), fill_buf is called again at the
\* same cursor with a capacity of at least R; if the host then delivers its
\* batch, next() yields the elements of that batch in order and no error item
\* while it is drained.
C3_Growth ==
    (/\ Len(fills) >= 1
     /\ fills[1].status = BUFLEN
     /\ fills[1].nwritten # 0
     /\ (max_buf_size = None \/ fills[1].nwritten < max_buf_size[1])) =>
        /\ Len(fills) >= 2
        /\ fills[2].cap >= fills[1].nwritten
        /\ fills[2].cursor = fills[1].cursor
        /\ (Len(fills) = 2 => buf_size = fills[1].nwritten)
        /\ ((fills[2].status = OK /\ fills[2].kind = "batch") =>
               /\ Len(out) >= 1
               /\ \A j \in 1 .. Min(Len(out), Delivered(2)) : out[j] = ItemOk(src[j])
               /\ (Len(fills) = 2 => panicked = "none" /\ ErrPositions = {}))

\* A session with a max_buf_size that grew its buffer for the first batch of
\* two elements and yielded both.
C3_Witness ==
    /\ Len(fills) = 2
    /\ max_buf_size # None
    /\ fills[1].status = BUFLEN
    /\ fills[1].nwritten > fills[1].cap
    /\ fills[1].nwritten < max_buf_size[1]
    /\ fills[2].status = OK
    /\ fills[2].kind = "batch"
    /\ Delivered(2) = 2
    /\ out = <<ItemOk(src[1]), ItemOk(src[2])>>
    /\ src[1] # src[2]

\* C4, as stated: a BUFLEN answer with a non-zero required size R (here: the
\* size of a batch the host holds) is retried with a grown buffer whenever
\* there is no max_buf_size or R does not exceed it; no BufferTooSmall item
\* is yielded for it.
C4_GrowthEligibility ==
    \A i \in 1 .. Len(fills) :
        (/\ ~IsRetry(i)
         /\ fills[i].status = BUFLEN
         /\ fills[i].kind = "batch"
         /\ fills[i].nwritten # 0
         /\ (max_buf_size = None \/ fills[i].nwritten <= max_buf_size[1])) =>
            /\ Len(fills) > i
            /\ fills[i + 1].cap >= fills[i].nwritten
            /\ \A j \in 1 .. Len(out) : out[j].tag # "BufferTooSmall"

\* C5, as stated: a BUFLEN answer with required size 0 marks the session
\* finished and makes next() return None, not an error item.
C5_BuflenZero ==
    \A i \in 1 .. Len(fills) :
        (~IsRetry(i) /\ fills[i].status = BUFLEN /\ fills[i].nwritten = 0) =>
            /\ is_done
            /\ out[Delivered(i - 1) + 1] = ItemNone
            /\ ErrPositions = {}

\* C6: when the first fill returns OK with nwritten = 0, every next() returns
\* None: no element, no error, no panic and no second fill_buf call.
C6_EmptySource ==
    (Len(fills) >= 1 /\ fills[1].status = OK /\ fills[1].nwritten = 0) =>
        /\ Len(fills) = 1
        /\ panicked = "none"
        /\ is_done
        /\ Len(out) >= 1
        /\ \A j \in 1 .. Len(out) : out[j] = ItemNone

\* An empty source answered OK with nothing written; next() was called three
\* times.
C6_Witness ==
    /\ src = <<>>
    /\ Len(fills) = 1
    /\ fills[1].status = OK
    /\ fills[1].nwritten = 0
    /\ out = <<ItemNone, ItemNone, ItemNone>>

\* The ending cursor the last successful fill_buf call before call i wrote;
\* 0 when there was none.
RECURSIVE PrevEnding(_)
PrevEnding(i) ==
    IF i <= 1 THEN 0
    ELSE IF fills[i - 1].status = OK THEN fills[i - 1].ending
    ELSE PrevEnding(i - 1)

\* C7: the first fill_buf call is made with cursor 0 and every later one with
\* the ending cursor the last successful call before it wrote; no call
\* follows a successful call that wrote a negative ending cursor, which
\* leaves the session done.
C7_CursorChaining ==
    /\ \A i \in 1 .. Len(fills) : fills[i].cursor = PrevEnding(i)
    /\ \A i \in 1 .. Len(fills) :
          (fills[i].status = OK /\ fills[i].ending < 0) =>
              /\ i = Len(fills)
              /\ (panicked = "none" => is_done)
              /\ \A j \in (Delivered(i) + 1) .. Len(out) : out[j] = ItemNone

\* Three elements fetched by three fills, each continuing at the ending
\* cursor of the one before; the last wrote -1 and next() then returned None.
C7_Witness ==
    /\ Len(fills) = 3
    /\ \A i \in 1 .. 3 : fills[i].status = OK /\ fills[i].kind = "batch"
    /\ fills[1].cursor = 0
    /\ fills[2].cursor = fills[1].ending
    /\ fills[3].cursor = fills[2].ending
    /\ fills[2].cursor > 0
    /\ fills[3].cursor > fills[2].cursor
    /\ fills[3].ending < 0
    /\ Len(out) = 4
    /\ out[4] = ItemNone

\* Every fill_buf call so far was answered as the protocol asks.
HostKeptProtocol ==
    \A i \in 1 .. Len(fills) : fills[i].kind \in {"batch", "empty", "error"}

\* C8: with a host that keeps the protocol, the elements yielded so far are
\* the first elements of the source, in the host's order, whole and without
\* a terminator byte, all of them before any other item; once next() has
\* returned None with no error, they are the whole source.
C8_Ordering ==
    HostKeptProtocol =>
        LET n == Len(OkBytes(out))
        IN  /\ n <= Len(src)
            /\ \A j \in 1 .. n : out[j] = ItemOk(src[j])
            /\ \A j \in 1 .. n : \A k \in 1 .. Len(out[j].bytes) : out[j].bytes[k] # TermByte
            /\ n <= Delivered(Len(fills))
            /\ ((\E j \in 1 .. Len(out) : out[j] = ItemNone) /\ ErrPositions = {} /\ Len(src) > 0
                   => OkBytes(out) = src)

\* A source of three elements of two different lengths, delivered by more
\* than one fill, has been yielded whole and in order, followed by None.
C8_Witness ==
    /\ HostKeptProtocol
    /\ Len(src) = 3
    /\ src[1] # src[2]
    /\ Len(fills) >= 2
    /\ \A i \in 1 .. Len(fills) : fills[i].status = OK
    /\ Delivered(1) = 2
    /\ OkBytes(out) = src
    /\ Len(out) = 4
    /\ out[4] = ItemNone

\* C9: a fill_buf call, first or retry, that returns a status other than OK
\* and BUFLEN is the last call of the session: next() marks the session done
\* and yields Err(ClosureError) with that very status, preceded only by the
\* elements earlier fills delivered and followed only by None.
C9_ClosureError ==
    \A i \in 1 .. Len(fills) : (fills[i].status \notin {OK, BUFLEN}) =>
        LET e == Delivered(i - 1) + 1
        IN  /\ i = Len(fills)
            /\ panicked = "none"
            /\ is_done
            /\ Len(out) >= e
            /\ out[e].tag = "ClosureError"
            /\ out[e].code = fills[i].status
            /\ ErrPositions = {e}
            /\ \A j \in 1 .. (e - 1) : out[j].tag = "Ok"
            /\ \A j \in (e + 1) .. Len(out) : out[j] = ItemNone

\* After one element, the growth retry of the second fill failed with BADF:
\* the session yielded the element, ClosureError(BADF) and then None.
C9_Witness ==
    /\ Len(fills) = 3
    /\ IsRetry(3)
    /\ fills[3].status = BADF
    /\ Len(out) = 3
    /\ out[1].tag = "Ok"
    /\ out[2].tag = "ClosureError"
    /\ out[2].code = BADF
    /\ out[3] = ItemNone

\* next() has returned None or an error item.
Ended == out # <<>> /\ out[Len(out)].tag # "Ok"

\* C10: once next() has returned None or an Err item, every later next()
\* returns None and makes no fill_buf call.
C10_Fused ==
    [][Ended => (out' = Append(out, ItemNone) /\ fills' = fills /\ panicked' = "none")]_vars

\* A session that yielded an element, then BufferTooSmall, then None twice.
C10_Witness ==
    /\ Len(out) = 4
    /\ out[1].tag = "Ok"
    /\ out[2].tag = "BufferTooSmall"
    /\ out[3] = ItemNone
    /\ out[4] = ItemNone

\* The fill_buf call number i returned OK and wrote bytes, none of them the
\* terminator.
NoTerminator(i) ==
    /\ fills[i].status = OK
    /\ fills[i].nwritten > 0
    /\ TermCount(fills[i].data) = 0

\* The fill_buf call number i returned OK, wrote bytes, and left an ending
\* cursor that is not negative and not beyond the cursor it was called with.
CursorNotAdvanced(i) ==
    /\ fills[i].status = OK
    /\ fills[i].nwritten > 0
    /\ fills[i].ending >= 0
    /\ fills[i].ending <= fills[i].cursor

\* The fill_buf call number i is a retry that was answered BUFLEN again.
SecondBuflen(i) == IsRetry(i) /\ fills[i].status = BUFLEN

\* C11: a fill that wrote bytes without a terminator, a fill that wrote bytes
\* and an ending cursor that is non-negative but not greater than the cursor
\* passed in, and a BUFLEN answer to the retry each make next() panic: the
\* call is the last of the session and that next() returns nothing, neither
\* an element nor an error item nor None.
C11_ProtocolViolations ==
    \A i \in 1 .. Len(fills) :
        (NoTerminator(i) \/ CursorNotAdvanced(i) \/ SecondBuflen(i)) =>
            /\ i = Len(fills)
            /\ panicked # "none"
            /\ Len(out) = Delivered(i - 1)
            /\ \A j \in 1 .. Len(out) : out[j].tag = "Ok"
            /\ (SecondBuflen(i) => panicked = "adaptive buffer hostcall requested wrong size")

\* After one element was yielded, the retry of the second fill was answered
\* BUFLEN again and next() panicked.
C11_Witness ==
    /\ Len(fills) = 3
    /\ SecondBuflen(3)
    /\ panicked = "adaptive buffer hostcall requested wrong size"
    /\ Len(out) = 1
    /\ out[1].tag = "Ok"

\* C12, as stated: in a session constructed with max_buf_size = R after
\* BufferTooSmall{R}, with an initial_buf_size of at most R, the batch the
\* host asks R bytes for does not end in BufferTooSmall: the fill is retried
\* with room for R bytes.
C12_Recovery ==
    (retry_of # None /\ retry_of[1] > 0) =>
        \A i \in 1 .. Len(fills) :
            (/\ ~IsRetry(i)
             /\ fills[i].status = BUFLEN
             /\ fills[i].kind = "batch"
             /\ fills[i].nwritten = retry_of[1]) =>
                /\ Len(fills) > i
                /\ fills[i + 1].cap >= retry_of[1]
                /\ \A j \in 1 .. Len(out) : out[j].tag # "BufferTooSmall"

\* C13: when a max_buf_size is set, buf_size (the clamped initial value and
\* every grown value) never exceeds it.
C13_CapacityCeiling ==
    max_buf_size # None => buf_size <= max_buf_size[1]

\* A session with a max_buf_size whose buf_size has grown to the size the
\* host asked for.
C13_Witness ==
    /\ max_buf_size # None
    /\ Len(fills) >= 2
    /\ IsRetry(2)
    /\ fills[1].nwritten > fills[1].cap
    /\ buf_size = fills[1].nwritten
    /\ panicked = "none"

\* C14, as stated: no step of a session leaves buf_size smaller than it was.
C14_Monotonic ==
    [][buf_size' >= buf_size]_vars

\* One call of next() made fill_buf calls: the first of them.
FirstNewFill == fills'[Len(fills) + 1]

C27_NoFillAfterDone ==
    [][is_done => fills' = fills]_vars

\* The session was marked done by its only fill_buf call while elements were
\* still buffered; later calls of next() drained them and returned None.
C27_Witness ==
    /\ is_done
    /\ Len(fills) = 1
    /\ Len(out) = 3
    /\ out[1].tag = "Ok"
    /\ out[2].tag = "Ok"
    /\ out[3] = ItemNone

\* The fill_buf call number i returned OK and reported more bytes than the
\* capacity it was given.
Overflowed(i) == fills[i].status = OK /\ fills[i].nwritten > fills[i].cap

\* C28: a fill_buf call that returns OK and reports more bytes than the
\* capacity passed to it makes next() panic before the buffer is exposed:
\* that call of next() yields nothing, the buffer stays empty and no
\* later call is made.
C28_BoundsChecked ==
    /\ [](\A i \in 1 .. Len(fills) :
            Overflowed(i) =>
                /\ i = Len(fills)
                /\ panicked = "fill_buf set invalid nwritten"
                /\ buf = <<>>)
    /\ [][(Len(fills') > Len(fills) /\ fills'[Len(fills')].status = OK
             /\ fills'[Len(fills')].nwritten > fills'[Len(fills')].cap) =>
                out' = out]_vars

\* The host overflowed the buffer after an element had been yielded.
C28_Witness ==
    /\ Len(fills) >= 2
    /\ Overflowed(Len(fills))
    /\ panicked = "fill_buf set invalid nwritten"
    /\ Len(out) >= 1
    /\ out[1].tag = "Ok"

\* ------------------------------------------------------------ the adapters
\* The host call number i failed with a status other than BUFLEN.
HostFailed(i) == fills[i].status # OK /\ fills[i].status # BUFLEN

\* C15: every header adapter turns the reader's BufferTooSmall into a
\* BufferSizeError item whose needed_buf_size is the size the host reported
\* and whose buf_size is the maximum buffer size the adapter was called with.
C15_SizePreserved ==
    adapter \in Adapters =>
        \A j \in 1 .. Len(out) :
            out[j].tag = "BufferTooSmall" =>
                /\ adapter_panic = NoPanic
                /\ Len(items) >= j
                /\ items[j].tag = "BufferSizeError"
                /\ fills[Len(fills)].status = BUFLEN
                /\ items[j].needed_buf_size = fills[Len(fills)].nwritten
                /\ items[j].buf_size = max_buf_size[1]
                /\ items[j].buffer_kind \in {"HeaderName", "HeaderValue"}

C15_Witness ==
    /\ adapter = "ResponseHandle::get_header_values"
    /\ Len(items) = 2
    /\ items[1].tag = "Ok"
    /\ items[2].tag = "BufferSizeError"
    /\ items[2].needed_buf_size = 3
    /\ items[2].buf_size = 2
    /\ fills[Len(fills)].nwritten = 3

C17_SingleClose ==
    \A c \in close_results : c.result = "Ok" /\ close_calls[c.h] = 1

\* The functions that obtain the client request, and the client body.
ReqTakers ==
    {"RequestHandle::from_client", "client_request_and_body",
     "Request::from_client", "Request::try_from_client"}
BodyTakers ==
    {"BodyHandle::from_client", "client_request_and_body",
     "Request::from_client", "Request::try_from_client"}

\* C18: over any sequence of RequestHandle::from_client,
\* BodyHandle::from_client, client_request_and_body and
\* Request::from_client / try_from_client the client request handle is
\* obtained at most once and the client body handle at most once; every
\* later attempt to obtain one of them again panics and obtains nothing.
C18_TakenOnce ==
    /\ Cardinality({i \in 1 .. Len(takes) : takes[i].req}) <= 1
    /\ Cardinality({i \in 1 .. Len(takes) : takes[i].body}) <= 1
    /\ \A i, j \in 1 .. Len(takes) :
          (i < j /\ ((takes[i].req /\ takes[j].fn \in ReqTakers)
                      \/ (takes[i].body /\ takes[j].fn \in BodyTakers))) =>
              /\ takes[j].outcome = "panicked"
              /\ ~takes[j].req
              /\ ~takes[j].body
              /\ j = Len(takes)
              /\ exec_panic \in {ReqPanic, BodyPanic}

C18_Witness ==
    /\ Len(takes) = 3
    /\ takes[1] = Take("RequestHandle::from_client", TRUE, FALSE, "returned")
    /\ takes[2] = Take("BodyHandle::from_client", FALSE, TRUE, "returned")
    /\ takes[3] = Take("Request::try_from_client", FALSE, FALSE, "panicked")
    /\ exec_panic = ReqPanic

\* The calls that send a response to the client.
ResponseSenders == {"Response::send_to_client", "Response::stream_to_client"}
HandleSenders == {"ResponseHandle::send_to_client", "ResponseHandle::stream_to_client"}

C20_IsFromClient ==
    \A r \in BagToSet(requests) :
        r.is_from_client <=> (r.origin = "client")

\* The adapters that enumerate header names.
NameEnumerations == NameAdapters \cup {"client_original_header_names"}

\* C29: the BufferSizeError of an adapter names the kind of element it
\* enumerates: HeaderName for the header-name enumerations, among them
\* client_original_header_names, and HeaderValue for the header-value
\* enumerations.
C29_ErrorKind ==
    adapter \in Adapters =>
        \A j \in 1 .. Len(items) :
            items[j].tag = "BufferSizeError" =>
                items[j].buffer_kind =
                    IF adapter \in NameEnumerations THEN "HeaderName" ELSE "HeaderValue"

\* C30: in a session of a public adapter, constructed with initial size =
\* maximum = buf_size, a BUFLEN answer that needs more than buf_size is not
\* retried and is reported as a BufferSizeError with buf_size as the size
\* attempted; the reader's buf_size never exceeds the adapter's, and it and
\* the capacity requested stay at buf_size or above unless the host asks
\* for a buffer no larger than it has (the retry of such a request panics
\* when it is answered by BUFLEN).
C30_NeverGrows ==
    adapter \in Adapters =>
        /\ buf_size <= max_buf_size[1]
        /\ (\A i \in 1 .. Len(fills) : fills[i].kind # "bad_size") =>
               /\ buf_size = max_buf_size[1]
               /\ \A i \in 1 .. Len(fills) : fills[i].cap >= max_buf_size[1]
        /\ \A i \in 1 .. Len(fills) :
               (fills[i].status = BUFLEN /\ fills[i].nwritten > max_buf_size[1]) =>
                   /\ i = Len(fills)
                   /\ IF IsRetry(i)
                      THEN panicked = "adaptive buffer hostcall requested wrong size"
                      ELSE /\ panicked = "none"
                           /\ adapter_panic = NoPanic
                           /\ \E j \in 1 .. Len(items) :
                                 /\ items[j].tag = "BufferSizeError"
                                 /\ items[j].buf_size = max_buf_size[1]
                                 /\ items[j].needed_buf_size = fills[i].nwritten

\* client_original_header_names(2) yielded a name and then met one that
\* needs 3 bytes.
C30_Witness ==
    /\ adapter = "client_original_header_names"
    /\ max_buf_size = Some(2)
    /\ buf_size = 2
    /\ Len(fills) = 2
    /\ fills[2].status = BUFLEN
    /\ fills[2].nwritten = 3
    /\ Len(items) = 2
    /\ items[1].tag = "Ok"
    /\ items[2].tag = "BufferSizeError"
    /\ items[2].buf_size = 2

\* -------------------------------------------------------------- the limits
\* The components of a request and the limit that bounds each.
Components == {"max_method_bytes", "max_url_bytes", "max_header_name_bytes", "max_header_value_bytes"}

\* The size the host needs for component c is larger than its limit.
Exceeded(c) == REQUEST_LIMITS[c] # None /\ conversion.required[c] > REQUEST_LIMITS[c][1]

\* C21: Request::from_handles returns a BufferSizeError only when the size
\* the host needs for some component is strictly greater than that
\* component's limit; a size equal to the limit is accepted, for method,
\* URL, header names and header values alike.
C21_OnlyWhenExceeded ==
    (conversion.called /\ conversion.tag = "BufferSizeError") =>
        \E c \in Components : Exceeded(c)

\* C22: at the start and after ResponseLimits::set_all_default() the
\* getters of the response limits return the documented defaults,
\* Some(DEFAULT_MAX_HEADER_NAME_BYTES) and Some(DEFAULT_MAX_HEADER_VALUE_BYTES).
C22_ResponseDefaults ==
    response_limits_call \in {"none", "ResponseLimits::set_all_default"} =>
        /\ ResponseLimits_get_max_header_name_bytes = Some(DEFAULT_MAX_HEADER_NAME_BYTES)
        /\ ResponseLimits_get_max_header_value_bytes = Some(DEFAULT_MAX_HEADER_VALUE_BYTES)

\* ------------------------------------------------------------ backend names
\* The name has a char that is neither a visible ASCII char nor a space.
HasInvalidChar == \E i \in 1 .. Len(backend_name) : backend_name[i] \notin 32 .. 126

\* C23: validate_backend and Backend::from_name return Err(EmptyName) for
\* the empty name, otherwise Err(TooLong) when the name is longer than 255
\* (bytes of UTF-8), otherwise Err(InvalidName) when a char is neither
\* visible ASCII nor a space, and Ok otherwise; so a name of 255 accepted
\* chars is Ok and one of 256 chars is TooLong.
C23_ValidateBackend ==
    backend_call # "none" =>
        /\ backend_result.tag =
              IF backend_name = <<>> THEN "EmptyName"
              ELSE IF str_len(backend_name) > MAX_BACKEND_NAME_LEN THEN "TooLong"
              ELSE IF HasInvalidChar THEN "InvalidName"
              ELSE "Ok"
        /\ (Len(backend_name) = 255 /\ ~HasInvalidChar) => backend_result.tag = "Ok"
        /\ Len(backend_name) = 256 => backend_result.tag = "TooLong"

\* A name of exactly 255 accepted chars has been validated.
C23_Witness ==
    /\ backend_call # "none"
    /\ Len(backend_name) = 255
    /\ ~HasInvalidChar
    /\ backend_result.tag = "Ok"

SubsequentlyRead == IF body_read # None THEN body_read[1] ELSE Content

\* C25: after an unmodified Prefix from get_prefix_mut is dropped without
\* take(), the bytes read from the body are those it held before
\* get_prefix_mut, in the original order; after take() they are those
\* bytes without the prefix.
C25_PrefixRoundTrip ==
    /\ (prefix.state = "dropped" /\ ~prefix.modified) => SubsequentlyRead = body_before
    /\ prefix.state = "taken" => prefix.orig \o SubsequentlyRead = body_before

\* An unmodified, non-empty Prefix shorter than the body was dropped, and
\* the body was then read to its end.
C25_Witness ==
    /\ prefix.state = "dropped"
    /\ ~prefix.modified
    /\ prefix.buf # <<>>
    /\ body_read # None
    /\ Len(body_read[1]) > Len(prefix.buf)
    /\ body_read[1] = <<1, 2, 3>>
====
